---- MODULE Spec2Model ----
(***************************************************************************)
(* Model of the animatronic sequencer (sequencer.py): one run of           *)
(* run_animation against a bus driver whose answers are chosen by the      *)
(* environment.  Every bus transaction (open, grouped read, grouped write) *)
(* is one step of the run.                                                 *)
(***************************************************************************)
EXTENDS Integers, Sequences, FiniteSets, TLC

(***************************************************************************)
(* Bounds of the model.                                                    *)
(***************************************************************************)
\* deepest nesting of process_sequence calls that is explored
MaxDepth == 3

(***************************************************************************)
(* Program constants.                                                      *)
(***************************************************************************)
DEFAULT_BASE_VELOCITY == 150

(***************************************************************************)
(* Configuration files the run reads.                                      *)
(***************************************************************************)
\* config/session_servos.json: three actuators on bus "A", one on bus "B"
Manifest ==
  << [id |-> 1, com_port |-> "A", baud_rate |-> 57600, motor_type |-> 1],
     [id |-> 2, com_port |-> "A", baud_rate |-> 57600, motor_type |-> 1],
     [id |-> 3, com_port |-> "A", baud_rate |-> 57600, motor_type |-> 1],
     [id |-> 4, com_port |-> "B", baud_rate |-> 57600, motor_type |-> 2] >>

\* keys of servo_manifest = {item['id']: item ...}
ManifestIds == {Manifest[n].id : n \in DOMAIN Manifest}

\* servo_manifest[dxl_id]
Servo(dxl_id) == Manifest[CHOOSE n \in DOMAIN Manifest : Manifest[n].id = dxl_id]

RECURSIVE Dedup(_)
\* a sequence without its repeated elements, first occurrences kept
\* (the key order of a dict filled in the order of the sequence)
Dedup(s) ==
  IF s = << >> THEN << >>
  ELSE LET front == Dedup(SubSeq(s, 1, Len(s) - 1))
           last  == s[Len(s)]
       IN IF \E n \in DOMAIN front : front[n] = last THEN front
          ELSE Append(front, last)

\* keys of unique_ports, in insertion order
UniquePorts == Dedup([n \in DOMAIN Manifest |-> Manifest[n].com_port])

Ports == {UniquePorts[n] : n \in DOMAIN UniquePorts}

\* one address block of config/address.json: register name -> byte width
\* (a register is present when both its address and its len_ key are)
XRegs ==
  [torque_enable |-> 1, present_position |-> 4, goal_position |-> 4,
   profile_velocity |-> 4, moving |-> 1]

Without(block, reg) == [r \in (DOMAIN block) \ {reg} |-> block[r]]

\* the address maps the run may find in config/address.json
AddrFull       == ("default" :> XRegs)
AddrNoDefault  == ("1" :> XRegs) @@ ("2" :> XRegs)
AddrNoPresent2 == ("default" :> XRegs) @@ ("2" :> Without(XRegs, "present_position"))
AddrNoMoving2  == ("default" :> XRegs) @@ ("2" :> Without(XRegs, "moving"))
AddressMaps    == {AddrFull, AddrNoDefault, AddrNoPresent2, AddrNoMoving2}

\* position/*.json: ordered collections of <<ID, position>>
GoalFiles ==
  [ pose_a     |-> << <<1, 100>>, <<2, 100>>, <<3, 100>>, <<4, 50>> >>,
    pose_b     |-> << <<1, 10>>, <<2, 57>> >>,
    pose_stale |-> << <<1, 100>>, <<99, 10>> >>,
    pose_rev   |-> << <<4, 50>>, <<1, 10>> >> ]

GoalFileNames == {"pose_a.json", "pose_b.json", "pose_stale.json", "pose_rev.json",
                  "missing.json"}

\* json.load of a position file; "missing.json" cannot be opened
GoalFileLoads(name) ==
  name \in {"pose_a.json", "pose_b.json", "pose_stale.json", "pose_rev.json"}
GoalFile(name) ==
  CASE name = "pose_a.json"     -> GoalFiles.pose_a
    [] name = "pose_b.json"     -> GoalFiles.pose_b
    [] name = "pose_stale.json" -> GoalFiles.pose_stale
    [] name = "pose_rev.json"   -> GoalFiles.pose_rev

\* a step of a script; an absent optional field is the empty sequence
Step(file, velocity, delay_ms, speed) ==
  [position_file |-> file, velocity |-> velocity, delay_ms |-> delay_ms,
   speed |-> speed]

\* animation/*.toml
Scripts ==
  [ main  |-> [base_velocity |-> << >>,
               sequence |-> << Step(<<"pose_a.json">>, << >>, 500, << >>),
                               Step(<<"sub.toml">>, << >>, 0, <<50>>),
                               Step(<< >>, << >>, 100, << >>),
                               Step(<<"pose_b.json">>, <<90>>, 0, << >>) >>],
    sub   |-> [base_velocity |-> <<90>>,
               sequence |-> << Step(<<"inner.toml">>, << >>, 0, <<50>>),
                               Step(<<"pose_b.json">>, << >>, 0, << >>) >>],
    inner |-> [base_velocity |-> << >>,
               sequence |-> << Step(<<"pose_a.json">>, <<3>>, 0, << >>) >>],
    fast  |-> [base_velocity |-> << >>,
               sequence |-> << Step(<<"missing.json">>, << >>, 0, << >>),
                               Step(<<"broken.toml">>, << >>, 0, << >>),
                               Step(<<"inner.toml">>, << >>, 0, << >>),
                               Step(<<"trim.toml">>, << >>, 0, <<29>>) >>],
    trim  |-> [base_velocity |-> <<100>>,
               sequence |-> << Step(<<"pose_b.json">>, << >>, 0, << >>) >>],
    stale |-> [base_velocity |-> << >>,
               sequence |-> << Step(<<"pose_stale.json">>, << >>, 0, << >>),
                               Step(<<"pose_b.json">>, << >>, 0, << >>) >>],
    loop  |-> [base_velocity |-> << >>,
               sequence |-> << Step(<<"pose_b.json">>, << >>, 0, << >>),
                               Step(<<"loop.toml">>, << >>, 0, <<200>>) >>] ]

\* toml.load of a script file; "broken.toml" does not parse
ScriptLoads(name) ==
  name \in {"main.toml", "sub.toml", "inner.toml", "fast.toml", "trim.toml",
            "stale.toml", "loop.toml"}
Script(name) ==
  CASE name = "main.toml"  -> Scripts.main
    [] name = "sub.toml"   -> Scripts.sub
    [] name = "inner.toml" -> Scripts.inner
    [] name = "fast.toml"  -> Scripts.fast
    [] name = "trim.toml"  -> Scripts.trim
    [] name = "stale.toml" -> Scripts.stale
    [] name = "loop.toml"  -> Scripts.loop

\* position_file.lower().endswith(...)
IsToml(name) ==
  name \in {"main.toml", "sub.toml", "inner.toml", "fast.toml", "trim.toml",
            "stale.toml", "loop.toml", "broken.toml"}
IsJson(name) == name \in GoalFileNames

\* the file names the GUI can hand to run_animation
TopLevelFiles == {"main.toml", "fast.toml", "stale.toml", "trim.toml", "loop.toml",
                  "broken.toml",
                  "pose_a.json", "pose_stale.json", "pose_rev.json", "missing.json",
                  "notes.txt"}

\* register values the driver may return for present_position
PosValues == {0, 50, 75}


(***************************************************************************)
(* Helper functions.                                                       *)
(***************************************************************************)
\* get_address_info raises KeyError: the fallback address_map["default"] is
\* evaluated before .get() is called, so a map without "default" raises
\* even for a device type that has its own block
AddressInfoRaises(motor_type, address_map) == "default" \notin DOMAIN address_map

\* get_address_info(motor_type, address_map), when it does not raise
get_address_info(motor_type, address_map) ==
  IF ToString(motor_type) \in DOMAIN address_map
  THEN address_map[ToString(motor_type)]
  ELSE address_map["default"]

\* addr[reg] / addr['len_' + reg] raises KeyError for the servo dxl_id
RegisterRaises(dxl_id, reg, address_map) ==
  \/ AddressInfoRaises(Servo(dxl_id).motor_type, address_map)
  \/ reg \notin DOMAIN get_address_info(Servo(dxl_id).motor_type, address_map)

\* width in bytes of a register that resolves
RegisterLen(dxl_id, reg, address_map) ==
  get_address_info(Servo(dxl_id).motor_type, address_map)[reg]

\* [LOBYTE(LOWORD(v)), HIBYTE(LOWORD(v)), LOBYTE(HIWORD(v)), HIBYTE(HIWORD(v))][:len]
\* read back as the unsigned little-endian number the device receives
\* (values of the model stay below 2^31, where four bytes hold them whole)
ParamBytes(value, len) ==
  IF len >= 4 THEN value ELSE value % (256 ^ len)

Abs(n) == IF n < 0 THEN -n ELSE n
Max(a, b) == IF a >= b THEN a ELSE b

\* exponents tried when normalising a quotient of two model-sized integers
ExpRange == -15 .. 15

\* floor(log2(t / m)) for t, m > 0
FloorLog2(t, m) ==
  CHOOSE e \in ExpRange :
    /\ IF e >= 0 THEN m * (2 ^ e) <= t ELSE m <= t * (2 ^ (-e))
    /\ IF e + 1 >= 0 THEN t < m * (2 ^ (e + 1)) ELSE t * (2 ^ (-(e + 1))) < m

RECURSIVE PowMod2(_, _)
\* 2^n mod m, by repeated squaring
PowMod2(n, m) ==
  IF n = 0 THEN 1 % m
  ELSE IF n % 2 = 1 THEN (2 * PowMod2(n - 1, m)) % m
  ELSE LET half == PowMod2(n \div 2, m) IN (half * half) % m

\* The double (travel / max_travel) * base_velocity falls below the integer
\* k = travel * base_velocity / max_travel that it equals in exact arithmetic:
\* the quotient travel / max_travel was rounded down to 53 significant bits
\* (remainder r of travel * 2^(52 - e) by max_travel, 0 < 2r < max_travel) and
\* the product's deficit base_velocity * r / (max_travel * 2^(52 - e)) is more
\* than half the spacing of the doubles just below k.
ProductFallsShort(travel, max_travel, base_velocity) ==
  LET k  == (travel * base_velocity) \div max_travel
      e  == FloorLog2(travel, max_travel)
      r  == (travel * PowMod2(52 - e, max_travel)) % max_travel
      lk == FloorLog2(k, 1)
      eb == IF 2 ^ lk = k THEN lk - 1 ELSE lk
      x  == eb - e - 1
  IN /\ r > 0 /\ 2 * r < max_travel
     /\ IF x >= 0 THEN base_velocity * r > max_travel * (2 ^ x)
        ELSE base_velocity * r * (2 ^ (-x)) > max_travel

\* the velocity without its lower clamp max(1, ...)
VelocityUnclamped(travel, max_travel, base_velocity) ==
  IF max_travel = 0 THEN 0 ELSE (travel * base_velocity) \div max_travel

\* the velocity rounded half up instead of truncated
VelocityRounded(travel, max_travel, base_velocity) ==
  IF max_travel = 0 THEN 1
  ELSE Max(1, (2 * travel * base_velocity + max_travel) \div (2 * max_travel))

\* velocity = int(max(1, (servo_travel_data[dxl_id] / max_travel) * base_velocity))
\* with true division and multiplication in double precision, for
\* 0 <= travel <= max_travel, max_travel > 0
Velocity(travel, max_travel, base_velocity) ==
  IF base_velocity <= 0 \/ travel = 0 THEN 1
  ELSE LET p == travel * base_velocity
           k == p \div max_travel
       IN IF p % max_travel # 0 THEN Max(1, k)
          ELSE IF ProductFallsShort(travel, max_travel, base_velocity)
               THEN Max(1, k - 1)
               ELSE Max(1, k)

\* the guard of the writes with the comparison slipped to >=
NeedsWriteAlways(max_travel) == max_travel >= 0

\* if max_travel > 0: (line 90)
NeedsWrite(max_travel) == max_travel > 0


(***************************************************************************)
(* State of one run.                                                       *)
(***************************************************************************)
VARIABLES
  pc,              \* position of the run in run_animation and its callees
  filename,        \* argument of run_animation
  address_map,     \* content of config/address.json
  port_handlers,   \* keys of the port_handlers dict, in insertion order
  portOpen,        \* driver side: the serial port of a bus is open
  portIdx,         \* position of the for loop over buses in progress
  queue,           \* messages put on the status queue
  gate,            \* outcome of check_torque_status
  stack,           \* activations of process_sequence, outermost first
  servo_goals,     \* goal set of the leaf being executed
  final_velocity,  \* base_velocity argument of execute_sync_move
  txlog,           \* bus transactions of the routine call in progress
  servos_to_check, \* pending set of wait_for_move_completion
  pollRead,        \* last grouped read of the moving flag in this cycle
  busIO,           \* <<bus, kind>> of every transaction issued in the run
  openFailed,      \* some bus failed to open or to set its link speed
  unconfirmed,     \* known actuators of the last executed leaf that no
                   \* poller has read as stopped yet
  threads,         \* the runs started from the GUI, one record per thread
  status_text      \* lines of the status box of the GUI

vars == << pc, filename, address_map, port_handlers, portOpen, portIdx, queue,
           gate, stack, servo_goals, final_velocity, txlog, servos_to_check,
           pollRead, busIO, openFailed, unconfirmed, threads, status_text >>

\* the state of the GUI: untouched by a run started without it
guiVars == << threads, status_text >>

Msg(tag, arg) == << tag, arg >>

NoPoll == [port |-> "", ok |-> FALSE, flags |-> << >>]

Init ==
  /\ pc = "start"
  /\ filename \in TopLevelFiles
  /\ address_map \in AddressMaps
  /\ port_handlers = << >>
  /\ portOpen = [p \in Ports |-> FALSE]
  /\ portIdx = 1
  /\ queue = << >>
  /\ gate = "pending"
  /\ stack = << >>
  /\ servo_goals = << >>
  /\ final_velocity = DEFAULT_BASE_VELOCITY
  /\ txlog = << >>
  /\ servos_to_check = {}
  /\ pollRead = NoPoll
  /\ busIO = {}
  /\ openFailed = FALSE
  /\ unconfirmed = {}
  /\ threads = << >>
  /\ status_text = << >>

\* for handler in port_handlers.values(): handler.closePort()
CloseAll(open, handlers) ==
  [p \in Ports |-> IF \E n \in DOMAIN handlers : handlers[n] = p THEN FALSE ELSE open[p]]

(***************************************************************************)
(* run_animation: configuration and bus acquisition (lines 191-211).       *)
(***************************************************************************)
LoadConfig ==
  /\ pc = "start"
  /\ \E loaded \in BOOLEAN :
       IF loaded
       THEN /\ pc' = "open"
            /\ UNCHANGED queue
       ELSE /\ pc' = "done"
            /\ queue' = Append(queue, Msg("fatal_config", ""))
  /\ UNCHANGED << guiVars, filename, address_map, port_handlers, portOpen, portIdx, gate,
                  stack, servo_goals, final_velocity, txlog, servos_to_check,
                  pollRead, busIO, openFailed, unconfirmed >>

\* outcomes of PortHandler(port_name), openPort() and setBaudRate(baud_rate)
OpenOutcomes == {"ok", "raises", "open_false", "baud_false"}

\* the serial port is open after the attempt: openPort() returned True
PortOpened(outcome) == outcome \in {"ok", "baud_false"}

\* a handler kept although openPort() returned False
HandlerKeptUnopened(outcome) == outcome \in {"ok", "open_false"}

\* port_handlers[port_name] = port_handler is reached
HandlerKept(outcome) == outcome = "ok"

OpenPort ==
  /\ pc = "open"
  /\ LET port == UniquePorts[portIdx] IN
     \E outcome \in OpenOutcomes :
       /\ portOpen' = [portOpen EXCEPT ![port] = PortOpened(outcome)]
       /\ IF HandlerKept(outcome)
          THEN /\ port_handlers' = Append(port_handlers, port)
               /\ UNCHANGED << queue, openFailed >>
          ELSE /\ queue' = Append(queue, Msg("open_failed", port))
               /\ openFailed' = TRUE
               /\ UNCHANGED port_handlers
  /\ IF portIdx = Len(UniquePorts)
     THEN pc' = "opened" /\ portIdx' = 1
     ELSE pc' = "open" /\ portIdx' = portIdx + 1
  /\ UNCHANGED << guiVars, filename, address_map, gate, stack, servo_goals,
                  final_velocity, txlog, servos_to_check, pollRead, busIO,
                  unconfirmed >>

\* if len(port_handlers) != len(unique_ports): close what was kept, return
AcquireCheck ==
  /\ pc = "opened"
  /\ IF Len(port_handlers) # Len(UniquePorts)
     THEN /\ portOpen' = CloseAll(portOpen, port_handlers)
          /\ pc' = "done"
          /\ UNCHANGED queue
     ELSE /\ pc' = "gate"
          /\ queue' = Append(queue, Msg("torque_check", ""))
          /\ UNCHANGED portOpen
  /\ UNCHANGED << guiVars, filename, address_map, port_handlers, portIdx, gate, stack,
                  servo_goals, final_velocity, txlog, servos_to_check, pollRead,
                  busIO, openFailed, unconfirmed >>


(***************************************************************************)
(* check_torque_status (lines 37-56) and its call (lines 213-216).         *)
(***************************************************************************)
\* servos_on_port = [s for s_id, s in servo_manifest.items() if s['com_port'] == port_name]
ServosOnPort(port) ==
  LET on == SelectSeq(Manifest, LAMBDA s : s.com_port = port)
  IN [n \in DOMAIN on |-> on[n].id]

SeqRange(s) == {s[n] : n \in DOMAIN s}

\* what a grouped read returns for one actuator: isAvailable and getData
\* (getData of a value that is not available is 0)
Reading(avail, val) == [avail |-> avail, val |-> val]
EnableReads == {Reading(TRUE, 1), Reading(TRUE, 0), Reading(FALSE, 0)}

\* one bus transaction as the driver sees it
Tx(kind, port, reg, ids, ok, data) ==
  [kind |-> kind, port |-> port, reg |-> reg, ids |-> ids, ok |-> ok, data |-> data]

\* an actuator whose register was not returned passed over
TorqueOffSkipsUnavailable(reading) == reading.avail /\ reading.val # 1

\* not isAvailable(...) or getData(...) != 1
TorqueOff(reading) == ~reading.avail \/ reading.val # 1

\* indexes of the servos of the bus whose reading fails the check
TorqueFailures(ids, data) == {n \in DOMAIN ids : TorqueOff(data[ids[n]])}

\* the result of the check ignored
AbortsRunNever(check_result) == FALSE

\* if not check_torque_status(...): close, report, return
AbortsRun(check_result) == ~check_result

\* what run_animation does with the result of the check
GateReturns(check_result, q) ==
  IF AbortsRun(check_result)
  THEN /\ portOpen' = CloseAll(portOpen, port_handlers)
       /\ queue' = Append(q, Msg("aborted", ""))
       /\ pc' = "done"
  ELSE /\ pc' = "dispatch"
       /\ queue' = q
       /\ UNCHANGED portOpen

GateBus ==
  /\ pc = "gate"
  /\ LET port == port_handlers[portIdx]
         ids  == ServosOnPort(port)
     IN IF \E n \in DOMAIN ids : RegisterRaises(ids[n], "torque_enable", address_map)
        THEN \* KeyError leaves run_animation: nothing catches it
             /\ pc' = "crashed"
             /\ gate' = "raised"
             /\ UNCHANGED << portOpen, queue, txlog, busIO, portIdx >>
        ELSE /\ busIO' = busIO \cup {<< port, "torque_read" >>}
             /\ \E ok \in BOOLEAN :
                  IF ~ok
                  THEN /\ txlog' = Append(txlog, Tx("read", port, "torque_enable", ids, FALSE, << >>))
                       /\ gate' = "failed"
                       /\ GateReturns(FALSE, queue)
                       /\ UNCHANGED portIdx
                  ELSE \E data \in [SeqRange(ids) -> EnableReads] :
                         /\ txlog' = Append(txlog, Tx("read", port, "torque_enable", ids, TRUE, data))
                         /\ IF TorqueFailures(ids, data) # {}
                            THEN LET first == CHOOSE n \in TorqueFailures(ids, data) :
                                                \A o \in TorqueFailures(ids, data) : n <= o
                                 IN /\ gate' = "failed"
                                    /\ GateReturns(FALSE,
                                         Append(queue, Msg("torque_disabled", ToString(ids[first]))))
                                    /\ UNCHANGED portIdx
                            ELSE IF portIdx < Len(port_handlers)
                                 THEN /\ portIdx' = portIdx + 1
                                      /\ UNCHANGED << pc, gate, queue, portOpen >>
                                 ELSE /\ gate' = "passed"
                                      /\ portIdx' = 1
                                      /\ GateReturns(TRUE, Append(queue, Msg("torque_ok", "")))
  /\ UNCHANGED << guiVars, filename, address_map, port_handlers, stack, servo_goals,
                  final_velocity, servos_to_check, pollRead, openFailed,
                  unconfirmed >>


(***************************************************************************)
(* process_sequence (lines 144-183) and the dispatch of run_animation      *)
(* (lines 218-229).                                                        *)
(***************************************************************************)
\* .get(key, default) of an optional field
GetOr(field, default) == IF field = << >> THEN default ELSE field[1]

RECURSIVE GCD(_, _)
GCD(a, b) == IF b = 0 THEN a ELSE GCD(b, a % b)

\* speed_multiplier as the exact fraction num / den in lowest terms; the
\* program holds the double nearest to it.  That is what the chain of double
\* products yields when at most one factor speed / 100.0 on the path is not
\* a power of two (multiplying by a power of two is exact), which is the
\* case for every path of the scripts of the model.
Mult(num, den) ==
  LET g == GCD(Abs(num), den) IN [num |-> num \div g, den |-> den \div g]

\* the factor of the nested step alone, the accumulated multiplier dropped
NestedMultiplierAlone(speed_multiplier, step) ==
  Mult(GetOr(step.speed, 100), 100)

\* speed_multiplier * nested_speed, nested_speed = step.get('speed', 100) / 100.0
NestedMultiplier(speed_multiplier, step) ==
  Mult(speed_multiplier.num * GetOr(step.speed, 100), speed_multiplier.den * 100)

\* the step velocity passed on without the multiplier
FinalVelocityUnscaled(step_velocity, speed_multiplier) == step_velocity

\* int(step_velocity * speed_multiplier): the double product truncated
\* towards zero.  The product of the velocity and the double nearest to
\* num / den can fall short of an integer it equals in exact arithmetic.
FinalVelocity(step_velocity, speed_multiplier) ==
  LET v == Abs(step_velocity)
      n == Abs(speed_multiplier.num)
      d == speed_multiplier.den
      q == (v * n) \div d
      t == IF v * n = 0 THEN 0
           ELSE IF (v * n) % d # 0 THEN q
           ELSE IF ProductFallsShort(n, d, v) THEN q - 1
           ELSE q
  IN IF step_velocity * speed_multiplier.num >= 0 THEN t ELSE -t

Frame(file, i, mult) == [file |-> file, i |-> i, mult |-> mult]
Top == stack[Len(stack)]
TopStep == Script(Top.file).sequence[Top.i]

\* if dxl_id not in servo_manifest: continue (lines 62, 114)
KnownIds(goals) == {goals[n][1] : n \in DOMAIN goals} \cap ManifestIds

\* entry of execute_sync_move
ExecStart(goals, base_velocity) ==
  /\ servo_goals' = goals
  /\ final_velocity' = base_velocity
  /\ txlog' = << >>
  /\ portIdx' = 1
  /\ unconfirmed' = KnownIds(goals)
  /\ pc' = "exec"

\* where control continues after a leaf or a nested script of the activation
\* on top of the stack, or after the leaf of a top-level .json run
AfterStep(stk) == IF stk = << >> THEN "close" ELSE "seq_delay"

Dispatch ==
  /\ pc = "dispatch"
  /\ IF IsToml(filename)
     THEN /\ stack' = << Frame(filename, 0, Mult(1, 1)) >>
          /\ pc' = "seq_load"
          /\ UNCHANGED << queue, servo_goals, final_velocity, txlog, portIdx, unconfirmed >>
     ELSE IF IsJson(filename)
     THEN /\ UNCHANGED stack
          /\ IF GoalFileLoads(filename)
             THEN /\ ExecStart(GoalFile(filename), DEFAULT_BASE_VELOCITY)
                  /\ UNCHANGED queue
             ELSE /\ queue' = Append(queue, Msg("json_error", filename))
                  /\ pc' = "close"
                  /\ UNCHANGED << servo_goals, final_velocity, txlog, portIdx, unconfirmed >>
     ELSE /\ pc' = "close"
          /\ UNCHANGED << stack, queue, servo_goals, final_velocity, txlog, portIdx, unconfirmed >>
  /\ UNCHANGED << guiVars, filename, address_map, port_handlers, portOpen, gate,
                  servos_to_check, pollRead, busIO, openFailed >>

\* a load error that unwinds every enclosing script
AfterLoadErrorUnwinds(stk) == << >>

\* except Exception: queue.put(...); return (lines 148-150): the activation
\* that failed to load is left, its callers stay
AfterLoadError(stk) == SubSeq(stk, 1, Len(stk) - 1)

\* toml.load(filepath) and the header of the sequence (lines 146-154)
SeqLoad ==
  /\ pc = "seq_load"
  /\ IF ScriptLoads(Top.file)
     THEN /\ stack' = [stack EXCEPT ![Len(stack)].i = 1]
          /\ queue' = Append(queue, Msg("processing", Top.file))
          /\ pc' = "seq_step"
     ELSE /\ stack' = AfterLoadError(stack)
          /\ queue' = Append(queue, Msg("toml_error", Top.file))
          /\ pc' = AfterStep(stack')
  /\ UNCHANGED << guiVars, filename, address_map, port_handlers, portOpen, portIdx, gate,
                  servo_goals, final_velocity, txlog, servos_to_check, pollRead,
                  busIO, openFailed, unconfirmed >>

\* one iteration of for i, step in enumerate(steps), up to the call it makes
SeqStep ==
  /\ pc = "seq_step"
  /\ IF Top.i > Len(Script(Top.file).sequence)
     THEN \* the loop is over: report and return to the caller
          /\ stack' = SubSeq(stack, 1, Len(stack) - 1)
          /\ queue' = Append(queue, Msg("sequence_complete", Top.file))
          /\ pc' = AfterStep(stack')
          /\ UNCHANGED << servo_goals, final_velocity, txlog, portIdx, unconfirmed >>
     ELSE IF TopStep.position_file = << >>
     THEN \* if not position_file: continue
          /\ stack' = [stack EXCEPT ![Len(stack)].i = Top.i + 1]
          /\ UNCHANGED << pc, queue, servo_goals, final_velocity, txlog, portIdx, unconfirmed >>
     ELSE LET position_file == TopStep.position_file[1]
              q == Append(queue, Msg("step", position_file))
          IN IF IsToml(position_file)
             THEN /\ Len(stack) < MaxDepth
                  /\ stack' = Append(stack, Frame(position_file, 0,
                                                  NestedMultiplier(Top.mult, TopStep)))
                  /\ queue' = q
                  /\ pc' = "seq_load"
                  /\ UNCHANGED << servo_goals, final_velocity, txlog, portIdx, unconfirmed >>
             ELSE IF IsJson(position_file) /\ GoalFileLoads(position_file)
             THEN /\ ExecStart(GoalFile(position_file),
                               FinalVelocity(GetOr(TopStep.velocity,
                                                   GetOr(Script(Top.file).base_velocity,
                                                         DEFAULT_BASE_VELOCITY)),
                                             Top.mult))
                  /\ queue' = q
                  /\ UNCHANGED stack
             ELSE /\ queue' = IF IsJson(position_file)
                              THEN Append(q, Msg("json_error", position_file))
                              ELSE q
                  /\ pc' = "seq_delay"
                  /\ UNCHANGED << stack, servo_goals, final_velocity, txlog, portIdx, unconfirmed >>
  /\ UNCHANGED << guiVars, filename, address_map, port_handlers, portOpen, gate,
                  servos_to_check, pollRead, busIO, openFailed >>

\* the delay that ends an iteration (lines 179-182)
SeqDelay ==
  /\ pc = "seq_delay"
  /\ queue' = IF TopStep.delay_ms > 0
              THEN Append(queue, Msg("delay", ToString(TopStep.delay_ms)))
              ELSE queue
  /\ stack' = [stack EXCEPT ![Len(stack)].i = Top.i + 1]
  /\ pc' = "seq_step"
  /\ UNCHANGED << guiVars, filename, address_map, port_handlers, portOpen, portIdx, gate,
                  servo_goals, final_velocity, txlog, servos_to_check, pollRead,
                  busIO, openFailed, unconfirmed >>

\* teardown at the end of run_animation (lines 231-232)
Close ==
  /\ pc = "close"
  /\ portOpen' = CloseAll(portOpen, port_handlers)
  /\ queue' = Append(queue, Msg("finished", filename))
  /\ pc' = "done"
  /\ UNCHANGED << guiVars, filename, address_map, port_handlers, portIdx, gate, stack,
                  servo_goals, final_velocity, txlog, servos_to_check, pollRead,
                  busIO, openFailed, unconfirmed >>


(***************************************************************************)
(* execute_sync_move (lines 59-107).                                       *)
(***************************************************************************)
\* a goal set with an id outside the manifest dropped as a whole
KnownGoalsStrict(goals) ==
  IF \A n \in DOMAIN goals : goals[n][1] \in ManifestIds THEN goals ELSE << >>

\* the goals the partition keeps: if dxl_id not in servo_manifest: continue
KnownGoals(goals) == SelectSeq(goals, LAMBDA g : g[1] \in ManifestIds)

\* keys of moves_by_port, in insertion order
MovePorts(goals) ==
  Dedup([n \in DOMAIN KnownGoals(goals) |-> Servo(KnownGoals(goals)[n][1]).com_port])

\* moves_by_port[port_name]['goals'], as <<dxl_id, goal_pos>> in insertion order
GoalsOnPort(goals, port) ==
  SelectSeq(KnownGoals(goals), LAMBDA g : Servo(g[1]).com_port = port)

Ids(goals) == [n \in DOMAIN goals |-> goals[n][1]]

PosReads == {Reading(TRUE, v) : v \in PosValues} \cup {Reading(FALSE, 0)}

\* travel = abs(move_data['goals'][dxl_id] - present_pos)
Travel(goal_pos, present_pos) == Abs(goal_pos - present_pos)

\* servo_travel_data
TravelData(goals, data) ==
  [d \in SeqRange(Ids(goals)) |->
     Travel(goals[CHOOSE n \in DOMAIN goals : goals[n][1] = d][2], data[d].val)]

\* max_travel: the largest travel, 0 for no travel at all
MaxTravel(travels) ==
  IF DOMAIN travels = {} THEN 0
  ELSE LET top == CHOOSE d \in DOMAIN travels : \A o \in DOMAIN travels : travels[o] <= travels[d]
       IN travels[top]

\* the parameters of groupBulkWrite_Vel
VelocityParams(goals, data, base_velocity, amap) ==
  LET travels == TravelData(goals, data)
  IN [d \in SeqRange(Ids(goals)) |->
        ParamBytes(Velocity(travels[d], MaxTravel(travels), base_velocity),
                   RegisterLen(d, "profile_velocity", amap))]

\* the parameters of groupBulkWrite_Pos
GoalParams(goals, amap) ==
  [d \in SeqRange(Ids(goals)) |->
     ParamBytes(goals[CHOOSE n \in DOMAIN goals : goals[n][1] = d][2],
                RegisterLen(d, "goal_position", amap))]

\* the two writes in the opposite order
BusWritesGoalFirst(port, ids, velocities, positions) ==
  << Tx("write", port, "goal_position", ids, TRUE, positions),
     Tx("write", port, "profile_velocity", ids, TRUE, velocities) >>

\* groupBulkWrite_Vel.txPacket() then groupBulkWrite_Pos.txPacket()
\* (lines 105-106)
BusWrites(port, ids, velocities, positions) ==
  << Tx("write", port, "profile_velocity", ids, TRUE, velocities),
     Tx("write", port, "goal_position", ids, TRUE, positions) >>

\* a failed read that ends the loop over the buses
AfterReadFailureReturns(idx, nports) == nports + 1

\* if groupBulkRead_Pos.txRxPacket() != COMM_SUCCESS: continue (line 76):
\* the loop goes on with the next bus
AfterReadFailure(idx, nports) == idx + 1

\* an exception inside the try of the leaf (lines 176-177, 228-229)
LeafRaises ==
  /\ queue' = Append(queue, Msg("json_error", ""))
  /\ pc' = AfterStep(stack)

\* one iteration of for port_name, move_data in moves_by_port.items()
ExecBus ==
  /\ pc = "exec"
  /\ portIdx <= Len(MovePorts(servo_goals))
  /\ LET port  == MovePorts(servo_goals)[portIdx]
         goals == GoalsOnPort(servo_goals, port)
         ids   == Ids(goals)
         RD(ok, data) == Tx("read", port, "present_position", ids, ok, data)
     IN IF \A n \in DOMAIN port_handlers : port_handlers[n] # port
        THEN \* if port_name not in port_handlers: continue
             /\ portIdx' = portIdx + 1
             /\ UNCHANGED << pc, queue, txlog, busIO >>
        ELSE IF \E n \in DOMAIN ids : RegisterRaises(ids[n], "present_position", address_map)
        THEN /\ LeafRaises
             /\ UNCHANGED << portIdx, txlog, busIO >>
        ELSE \E ok \in BOOLEAN :
               IF ~ok
               THEN \* if txRxPacket() != COMM_SUCCESS: continue
                    /\ txlog' = Append(txlog, RD(FALSE, << >>))
                    /\ busIO' = busIO \cup {<< port, "position_read" >>}
                    /\ portIdx' = AfterReadFailure(portIdx, Len(MovePorts(servo_goals)))
                    /\ UNCHANGED << pc, queue >>
               ELSE \E data \in [SeqRange(ids) -> PosReads] :
                      IF ~NeedsWrite(MaxTravel(TravelData(goals, data)))
                      THEN /\ txlog' = Append(txlog, RD(TRUE, data))
                           /\ busIO' = busIO \cup {<< port, "position_read" >>}
                           /\ portIdx' = portIdx + 1
                           /\ UNCHANGED << pc, queue >>
                      ELSE IF \E n \in DOMAIN ids :
                                \/ RegisterRaises(ids[n], "profile_velocity", address_map)
                                \/ RegisterRaises(ids[n], "goal_position", address_map)
                      THEN /\ txlog' = Append(txlog, RD(TRUE, data))
                           /\ busIO' = busIO \cup {<< port, "position_read" >>}
                           /\ LeafRaises
                           /\ UNCHANGED portIdx
                      ELSE /\ txlog' = txlog \o << RD(TRUE, data) >> \o
                                BusWrites(port, ids,
                                          VelocityParams(goals, data, final_velocity, address_map),
                                          GoalParams(goals, address_map))
                           /\ busIO' = busIO \cup {<< port, "position_read" >>,
                                                   << port, "velocity_write" >>,
                                                   << port, "goal_write" >>}
                           /\ portIdx' = portIdx + 1
                           /\ UNCHANGED << pc, queue >>
  /\ UNCHANGED << guiVars, filename, address_map, port_handlers, portOpen, gate, stack,
                  servo_goals, final_velocity, servos_to_check, pollRead,
                  openFailed, unconfirmed >>

(***************************************************************************)
(* wait_for_move_completion (lines 110-141).                               *)
(***************************************************************************)
RECURSIVE SortedSeq(_)
\* the elements of a set of integers in ascending order: the order in which
\* a set of small ints is iterated
SortedSeq(S) ==
  IF S = {} THEN << >>
  ELSE LET least == CHOOSE x \in S : \A y \in S : x <= y
       IN << least >> \o SortedSeq(S \ {least})

\* servos_to_check = set(servo_goals.keys())
PendingSeed(goals) == {goals[n][1] : n \in DOMAIN goals}

\* keys of servos_by_port, in insertion order
PollPorts(goals) ==
  LET known == SortedSeq(KnownIds(goals))
  IN Dedup([n \in DOMAIN known |-> Servo(known[n]).com_port])

\* servos_by_port[port_name]
PollIdsOnPort(goals, port) == {d \in KnownIds(goals) : Servo(d).com_port = port}

\* what a grouped read of the moving flag returns for one actuator
MovingReads == {Reading(TRUE, 0), Reading(TRUE, 1), Reading(FALSE, 0)}

\* a flag that was not returned counted as stopped
ReadsStoppedOrMissing(reading) == ~reading.avail \/ reading.val = 0

\* isAvailable(...) and getData(...) == 0
ReadsStopped(reading) == reading.avail /\ reading.val = 0

\* the pending set rebuilt from the goal set at every read
PollRemoveReseeds(pending, ids_to_poll, flags) ==
  PendingSeed(servo_goals) \ {d \in ids_to_poll : ReadsStopped(flags[d])}

\* the pending set after the readings of one bus (lines 134-138)
PollRemove(pending, ids_to_poll, flags) ==
  pending \ {d \in ids_to_poll : ReadsStopped(flags[d])}

\* execute_sync_move returns True and wait_for_move_completion starts
ExecReturn ==
  /\ pc = "exec"
  /\ portIdx > Len(MovePorts(servo_goals))
  /\ servos_to_check' = PendingSeed(servo_goals)
  /\ queue' = Append(queue, Msg("waiting", ""))
  /\ pollRead' = NoPoll
  /\ txlog' = << >>
  /\ portIdx' = 1
  /\ pc' = "wait"
  /\ UNCHANGED << guiVars, filename, address_map, port_handlers, portOpen, gate, stack,
                  servo_goals, final_velocity, busIO, openFailed, unconfirmed >>

\* one iteration of for port_name, all_ids_on_port in servos_by_port.items()
PollBus ==
  /\ pc = "wait"
  /\ servos_to_check # {}
  /\ portIdx <= Len(PollPorts(servo_goals))
  /\ LET port == PollPorts(servo_goals)[portIdx]
         ids_to_poll == servos_to_check \cap PollIdsOnPort(servo_goals, port)
     IN IF ids_to_poll = {} \/ \A n \in DOMAIN port_handlers : port_handlers[n] # port
        THEN /\ portIdx' = portIdx + 1
             /\ UNCHANGED << pc, queue, servos_to_check, pollRead, busIO, unconfirmed >>
        ELSE IF \E d \in ids_to_poll : RegisterRaises(d, "moving", address_map)
        THEN /\ LeafRaises
             /\ UNCHANGED << portIdx, servos_to_check, pollRead, busIO, unconfirmed >>
        ELSE /\ busIO' = busIO \cup {<< port, "moving_read" >>}
             /\ portIdx' = portIdx + 1
             /\ UNCHANGED << pc, queue >>
             /\ \E ok \in BOOLEAN :
                  IF ~ok
                  THEN /\ pollRead' = [port |-> port, ok |-> FALSE, flags |-> << >>]
                       /\ UNCHANGED << servos_to_check, unconfirmed >>
                  ELSE \E flags \in [ids_to_poll -> MovingReads] :
                         /\ pollRead' = [port |-> port, ok |-> TRUE, flags |-> flags]
                         /\ servos_to_check' = PollRemove(servos_to_check, ids_to_poll, flags)
                         /\ unconfirmed' = unconfirmed \ {d \in ids_to_poll : ReadsStopped(flags[d])}
  /\ UNCHANGED << guiVars, filename, address_map, port_handlers, portOpen, gate, stack,
                  servo_goals, final_velocity, txlog, openFailed >>

\* the end of one pass of while servos_to_check: sleep and poll again, or
\* report and return
PollCycleEnd ==
  /\ pc = "wait"
  /\ servos_to_check = {} \/ portIdx > Len(PollPorts(servo_goals))
  /\ IF servos_to_check # {}
     THEN /\ pc' = "wait_sleep"
          /\ UNCHANGED queue
     ELSE /\ pc' = AfterStep(stack)
          /\ queue' = Append(queue, Msg("movement_complete", ""))
  /\ pollRead' = NoPoll
  /\ UNCHANGED << guiVars, filename, address_map, port_handlers, portOpen, portIdx, gate,
                  stack, servo_goals, final_velocity, txlog, servos_to_check,
                  busIO, openFailed, unconfirmed >>

\* time.sleep(0.02), then the next pass
PollSleep ==
  /\ pc = "wait_sleep"
  /\ pc' = "wait"
  /\ portIdx' = 1
  /\ UNCHANGED << guiVars, filename, address_map, port_handlers, portOpen, queue, gate,
                  stack, servo_goals, final_velocity, txlog, servos_to_check,
                  pollRead, busIO, openFailed, unconfirmed >>

Next ==
  \/ LoadConfig
  \/ OpenPort
  \/ AcquireCheck
  \/ GateBus
  \/ Dispatch
  \/ SeqLoad
  \/ SeqStep
  \/ SeqDelay
  \/ ExecBus
  \/ ExecReturn
  \/ PollBus
  \/ PollCycleEnd
  \/ PollSleep
  \/ Close

Spec == Init /\ [][Next]_vars

\* a grouped read of the moving flags that succeeds and returns "stopped"
\* for every actuator it asked for
PollBusStopped ==
  /\ pc = "wait"
  /\ portIdx <= Len(PollPorts(servo_goals))
  /\ LET port == PollPorts(servo_goals)[portIdx]
         ids_to_poll == servos_to_check \cap PollIdsOnPort(servo_goals, port)
     IN /\ ids_to_poll # {}
        /\ \E n \in DOMAIN port_handlers : port_handlers[n] = port
        /\ \A d \in ids_to_poll : ~RegisterRaises(d, "moving", address_map)
        /\ pollRead' = [port |-> port, ok |-> TRUE,
                        flags |-> [d \in ids_to_poll |-> Reading(TRUE, 0)]]
        /\ servos_to_check' = servos_to_check \ ids_to_poll
        /\ unconfirmed' = unconfirmed \ ids_to_poll
        /\ busIO' = busIO \cup {<< port, "moving_read" >>}
        /\ portIdx' = portIdx + 1
  /\ UNCHANGED << guiVars, pc, queue, filename, address_map, port_handlers, portOpen,
                  gate, stack, servo_goals, final_velocity, txlog, openFailed >>

\* two scripts of the animation directory without nested scripts, and so
\* without cycles
AcyclicScripts == {"stale.toml", "trim.toml"}

\* a run of a script without cycles
InitFair == Init /\ filename \in AcyclicScripts

\* the run keeps taking the steps it can take (every call of the driver
\* and every sleep returns), and actuators that are polled again and again
\* are eventually read as stopped
SpecFair == InitFair /\ [][Next]_vars /\ WF_vars(Next) /\ SF_vars(PollBusStopped)


(***************************************************************************)
(* main_gui.py: runs started from the file lists.  Every double click      *)
(* starts run_animation on a thread of its own; the threads share the      *)
(* status queue and the serial devices of the buses.  A thread is followed *)
(* through the stages of run_animation; of the body (lines 218-229) only   *)
(* the bus transactions it issues are kept.                                *)
(***************************************************************************)
\* bus transactions of the body of one run followed
MaxTx == 1

\* the threads of two double clicks, in the order of the clicks
Runs == {"first", "second"}

\* entries of the two list boxes
GuiFiles == {"pose_a.json", "main.toml"}

\* a thread that has not been started
NoThread ==
  [pc |-> "idle", filename |-> "", port_handlers |-> << >>, open |-> {},
   idx |-> 1, tx |-> "", ntx |-> 0, sent |-> 0]

\* queue.put(...) by a thread: the text of the message, labelled with the
\* thread that put it and its rank among the messages of that thread
ThrMsg(r, rank, tag, arg) == << tag, arg, r, rank >>

\* the record of a thread that has put k more messages
Sent(t, k) == [t EXCEPT !.sent = t.sent + k]

\* the variables of the single run of Spec, the queue aside
runVars == << pc, filename, address_map, port_handlers, portOpen, portIdx, gate,
              stack, servo_goals, final_velocity, txlog, servos_to_check,
              pollRead, busIO, openFailed, unconfirmed >>

InitGUI ==
  /\ threads = [r \in Runs |-> NoThread]
  /\ status_text = << >>
  /\ queue = << >>
  /\ pc = "done"
  /\ filename = ""
  /\ address_map = AddrFull
  /\ port_handlers = << >>
  /\ portOpen = [p \in Ports |-> FALSE]
  /\ portIdx = 1
  /\ gate = "pending"
  /\ stack = << >>
  /\ servo_goals = << >>
  /\ final_velocity = DEFAULT_BASE_VELOCITY
  /\ txlog = << >>
  /\ servos_to_check = {}
  /\ pollRead = NoPoll
  /\ busIO = {}
  /\ openFailed = FALSE
  /\ unconfirmed = {}

\* for handler in port_handlers.values(): handler.closePort(), on the
\* serial devices one thread holds open
ThreadCloseAll(t) == t.open \ SeqRange(t.port_handlers)

\* a line that never reaches the status box
LoggedLineDropped(text, message) == text

\* log_status(message) (lines 150-155)
LoggedLine(text, message) == Append(text, message)

\* run_from_list (lines 112-120) and run_script_in_thread (lines 157-161):
\* the line in the status box and a new thread, whatever else is running
RunFromList ==
  /\ \E r \in Runs, f \in GuiFiles :
       /\ threads[r].pc = "idle"
       /\ r = "second" => threads["first"].pc # "idle"
       /\ status_text' = LoggedLine(status_text, Msg("running", f))
       /\ threads' = [threads EXCEPT ![r] = [NoThread EXCEPT !.pc = "start", !.filename = f]]
  /\ UNCHANGED << queue, runVars >>

\* process_queue (lines 163-171): one message, if there is one, moves from
\* the queue to the status box
ProcessQueue ==
  /\ queue # << >>
  /\ status_text' = LoggedLine(status_text, Head(queue))
  /\ queue' = Tail(queue)
  /\ UNCHANGED << threads, runVars >>

\* lines 191-198 on a thread
ThrLoadConfig ==
  /\ \E r \in Runs, loaded \in BOOLEAN :
       /\ threads[r].pc = "start"
       /\ IF loaded
          THEN /\ threads' = [threads EXCEPT ![r].pc = "open"]
               /\ UNCHANGED queue
          ELSE /\ threads' = [threads EXCEPT ![r] = Sent([threads[r] EXCEPT !.pc = "done"], 1)]
               /\ queue' = Append(queue, ThrMsg(r, threads[r].sent + 1, "fatal_config", ""))
  /\ UNCHANGED << status_text, runVars >>

\* lines 200-207 on a thread: the driver opens the serial device of a bus
\* whether or not another thread holds it open
ThrOpenPort ==
  /\ \E r \in Runs, outcome \in OpenOutcomes :
       LET t    == threads[r]
           port == UniquePorts[t.idx]
           last == t.idx = Len(UniquePorts)
       IN /\ t.pc = "open"
          /\ threads' = [threads EXCEPT ![r] =
               [t EXCEPT !.open = IF PortOpened(outcome) THEN t.open \cup {port}
                                  ELSE t.open \ {port},
                         !.port_handlers = IF HandlerKept(outcome)
                                           THEN Append(t.port_handlers, port)
                                           ELSE t.port_handlers,
                         !.pc = IF last THEN "opened" ELSE "open",
                         !.idx = IF last THEN 1 ELSE t.idx + 1,
                         !.sent = IF HandlerKept(outcome) THEN t.sent ELSE t.sent + 1]]
          /\ queue' = IF HandlerKept(outcome) THEN queue
                      ELSE Append(queue, ThrMsg(r, t.sent + 1, "open_failed", port))
  /\ UNCHANGED << status_text, runVars >>

\* lines 209-211 on a thread
ThrAcquireCheck ==
  /\ \E r \in Runs :
       LET t == threads[r]
       IN /\ t.pc = "opened"
          /\ IF Len(t.port_handlers) # Len(UniquePorts)
             THEN /\ threads' = [threads EXCEPT ![r] =
                       [t EXCEPT !.open = ThreadCloseAll(t), !.pc = "done"]]
                  /\ UNCHANGED queue
             ELSE /\ threads' = [threads EXCEPT ![r] = Sent([t EXCEPT !.pc = "gate"], 1)]
                  /\ queue' = Append(queue, ThrMsg(r, t.sent + 1, "torque_check", ""))
  /\ UNCHANGED << status_text, runVars >>


\* what the grouped read of check_torque_status gives for one bus
GateOutcomes == {"enabled", "disabled", "comm_fail"}

\* check_torque_status on a thread (lines 37-56): txRxPacket() of the bus
\* at hand is sent
ThrGateBegin ==
  /\ \E r \in Runs :
       LET t == threads[r]
       IN /\ t.pc = "gate" /\ t.tx = ""
          /\ threads' = [threads EXCEPT ![r].tx = t.port_handlers[t.idx]]
  /\ UNCHANGED << queue, status_text, runVars >>

\* txRxPacket() returns, and what check_torque_status and lines 213-216
\* make of it
ThrGateEnd ==
  /\ \E r \in Runs, outcome \in GateOutcomes :
       LET t == threads[r]
           aborted == [t EXCEPT !.tx = "", !.open = ThreadCloseAll(t), !.pc = "done"]
       IN /\ t.pc = "gate" /\ t.tx # ""
          /\ CASE outcome = "comm_fail" ->
                    /\ threads' = [threads EXCEPT ![r] = Sent(aborted, 1)]
                    /\ queue' = Append(queue, ThrMsg(r, t.sent + 1, "aborted", ""))
               [] outcome = "disabled" ->
                    \E id \in SeqRange(ServosOnPort(t.tx)) :
                      /\ threads' = [threads EXCEPT ![r] = Sent(aborted, 2)]
                      /\ queue' = queue \o
                           << ThrMsg(r, t.sent + 1, "torque_disabled", ToString(id)),
                              ThrMsg(r, t.sent + 2, "aborted", "") >>
               [] outcome = "enabled" ->
                    IF t.idx < Len(t.port_handlers)
                    THEN /\ threads' = [threads EXCEPT ![r] =
                              [t EXCEPT !.tx = "", !.idx = t.idx + 1]]
                         /\ UNCHANGED queue
                    ELSE /\ threads' = [threads EXCEPT ![r] =
                              Sent([t EXCEPT !.tx = "", !.idx = 1, !.pc = "body"], 1)]
                         /\ queue' = Append(queue, ThrMsg(r, t.sent + 1, "torque_ok", ""))
  /\ UNCHANGED << status_text, runVars >>

\* a transaction of the body (lines 218-229: txRxPacket() and txPacket() of
\* execute_sync_move and wait_for_move_completion) is sent on a bus of the
\* connection map
ThrBodyTxBegin ==
  /\ \E r \in Runs :
       LET t == threads[r]
       IN /\ t.pc = "body" /\ t.tx = "" /\ t.ntx < MaxTx
          /\ \E n \in DOMAIN t.port_handlers :
               threads' = [threads EXCEPT ![r].tx = t.port_handlers[n]]
  /\ UNCHANGED << queue, status_text, runVars >>

\* the transaction of the body returns
ThrBodyTxEnd ==
  /\ \E r \in Runs :
       LET t == threads[r]
       IN /\ t.pc = "body" /\ t.tx # ""
          /\ threads' = [threads EXCEPT ![r] = [t EXCEPT !.tx = "", !.ntx = t.ntx + 1]]
  /\ UNCHANGED << queue, status_text, runVars >>

\* lines 231-232 on a thread
ThrClose ==
  /\ \E r \in Runs :
       LET t == threads[r]
       IN /\ t.pc = "body" /\ t.tx = ""
          /\ threads' = [threads EXCEPT ![r] =
               Sent([t EXCEPT !.open = ThreadCloseAll(t), !.pc = "done"], 1)]
          /\ queue' = Append(queue, ThrMsg(r, t.sent + 1, "finished", t.filename))
  /\ UNCHANGED << status_text, runVars >>

NextGUI ==
  \/ RunFromList
  \/ ProcessQueue
  \/ ThrLoadConfig
  \/ ThrOpenPort
  \/ ThrAcquireCheck
  \/ ThrGateBegin
  \/ ThrGateEnd
  \/ ThrBodyTxBegin
  \/ ThrBodyTxEnd
  \/ ThrClose

SpecGUI == InitGUI /\ [][NextGUI]_vars

\* process_queue reschedules itself on every path (finally, line 171), so
\* a message waiting in the queue is eventually taken
SpecGUIFair == SpecGUI /\ WF_vars(ProcessQueue)


(***************************************************************************)
(* Properties.                                                             *)
(***************************************************************************)
WriteKinds == {"velocity_write", "goal_write"}
WriteIssued == \E io \in busIO : io[2] \in WriteKinds
Terminated == pc \in {"done", "crashed"}
NoPortOpen == \A p \in Ports : ~portOpen[p]
WaitPcs == {"wait", "wait_sleep"}

\* C1: a grouped write (velocity or goal position) is issued on a bus only
\* in a run whose check_torque_status returned true; a run whose gate failed
\* or raised issues no write transaction at all.
ThmC1 == WriteIssued => gate = "passed"

\* a run that ended on a failed gate after reading the motion-enable
\* registers, one of them unavailable
WitC1 ==
  /\ pc = "done" /\ gate = "failed"
  /\ \E n \in DOMAIN txlog :
       /\ txlog[n].reg = "torque_enable" /\ txlog[n].ok
       /\ \E d \in DOMAIN txlog[n].data : ~txlog[n].data[d].avail

\* C2: when a bus fails to open or to set its link speed, the run performs
\* no bus transaction and ends with every port it opened closed again.
CexC2 == openFailed => (busIO = {} /\ (pc = "done" => NoPortOpen))

\* C3: whenever a run that acquired every bus has ended, by return or by an
\* exception that leaves run_animation, no port is still open (the exit after
\* a failed acquisition is the subject of C2).
CexC3 == (Terminated /\ ~openFailed) => NoPortOpen

\* indexes of the grouped velocity writes of the executor call in progress;
\* the grouped read of the same bus is the transaction just before
VelWrites ==
  {n \in DOMAIN txlog : txlog[n].kind = "write" /\ txlog[n].reg = "profile_velocity"}

\* goal position of an actuator in the goal set being executed
GoalPos(d) == servo_goals[CHOOSE n \in DOMAIN servo_goals : servo_goals[n][1] = d][2]

\* travel of an actuator as the logged read n of its bus gives it
LoggedTravel(n, d) ==
  LET diff == GoalPos(d) - txlog[n].data[d].val IN IF diff < 0 THEN -diff ELSE diff

\* an actuator of the logged read n has the largest travel of its bus
HasMaxTravel(n, d) ==
  \A o \in DOMAIN txlog[n].data : LoggedTravel(n, o) <= LoggedTravel(n, d)

\* C4 as stated: the actuator with the largest travel is written exactly
\* base_velocity, and every velocity written is at least 1.
CexC4 ==
  \A n \in VelWrites : \A d \in DOMAIN txlog[n].data :
    /\ txlog[n].data[d] >= 1
    /\ HasMaxTravel(n - 1, d) => txlog[n].data[d] = final_velocity

\* C4 amended: the actuator with the largest travel is written base_velocity
\* when base_velocity >= 1 and 1 otherwise, and every velocity written is at
\* least 1.
ThmC4 ==
  \A n \in VelWrites : \A d \in DOMAIN txlog[n].data :
    /\ txlog[n].data[d] >= 1
    /\ HasMaxTravel(n - 1, d) =>
         txlog[n].data[d] = (IF final_velocity >= 1 THEN final_velocity ELSE 1)

\* a velocity write issued for a base velocity below 1
WitC4 ==
  \E n \in VelWrites :
    /\ final_velocity < 1
    /\ \E d \in DOMAIN txlog[n].data : HasMaxTravel(n - 1, d) /\ txlog[n].data[d] = 1

\* exact quotient travel * base_velocity / max_travel of a logged move
ExactNum(n, d) == LoggedTravel(n, d) * final_velocity
ExactDen(n) ==
  LoggedTravel(n, CHOOSE d \in DOMAIN txlog[n].data : HasMaxTravel(n, d))

AtLeastOne(v) == IF v >= 1 THEN v ELSE 1

\* C5 as stated: every velocity written is
\* max(1, round(travel / max_travel * base_velocity)), halves rounded up.
CexC5 ==
  \A n \in VelWrites : \A d \in DOMAIN txlog[n].data :
    txlog[n].data[d] =
      AtLeastOne((2 * ExactNum(n - 1, d) + ExactDen(n - 1)) \div (2 * ExactDen(n - 1)))

\* C5 amended: every velocity written is the double
\* travel / max_travel * base_velocity truncated, not rounded, and clamped to
\* at least 1: it is max(1, floor(travel * base_velocity / max_travel)) when
\* that quotient is not an integer or travel = max_travel, and that value or
\* one less (never below 1) when the quotient is an integer the double
\* product can fall short of; it is 1 for base_velocity <= 0.  Travels 100,
\* 50, 25 at base velocity 150 give 150, 75, 37.
ThmC5 ==
  \A n \in VelWrites : \A d \in DOMAIN txlog[n].data :
    LET v == txlog[n].data[d]
        q == ExactNum(n - 1, d) \div ExactDen(n - 1)
    IN IF final_velocity <= 0 THEN v = 1
       ELSE IF ExactNum(n - 1, d) % ExactDen(n - 1) # 0 \/ HasMaxTravel(n - 1, d)
            THEN v = AtLeastOne(q)
            ELSE v \in {AtLeastOne(q), AtLeastOne(q - 1)}

\* travels 100, 50 and 25 on one bus at base velocity 150, written as
\* velocities 150, 75 and 37
WitC5 ==
  \E n \in VelWrites :
    /\ final_velocity = 150
    /\ {1, 2, 3} \subseteq DOMAIN txlog[n].data
    /\ LoggedTravel(n - 1, 1) = 100 /\ txlog[n].data[1] = 150
    /\ LoggedTravel(n - 1, 2) = 50 /\ txlog[n].data[2] = 75
    /\ LoggedTravel(n - 1, 3) = 25 /\ txlog[n].data[3] = 37

\* C6: the poller goes to sleep for another cycle only while an actuator of
\* the manifest is still pending: once every known actuator of the goal set
\* has been read as stopped it returns, whatever other ids the goal set held.
CexC6 == pc = "wait_sleep" => servos_to_check \cap ManifestIds # {}

\* C7: from one step of a call of wait_for_move_completion to the next the
\* pending set never gains an actuator.
ThmC7 ==
  [][(pc \in WaitPcs /\ pc' \in WaitPcs) => servos_to_check' \subseteq servos_to_check]_vars

\* a bus read that failed in a cycle in which another actuator had already
\* been removed from the pending set
WitC7 ==
  /\ pc = "wait"
  /\ pollRead.port # "" /\ ~pollRead.ok
  /\ servos_to_check # {}
  /\ \E d \in KnownIds(servo_goals) : d \notin servos_to_check

\* C8: an executor starts only when every known actuator of the previous
\* executed leaf has been read as stopped by that leaf's poller.
CexC8 == [][(pc # "exec" /\ pc' = "exec") => unconfirmed = {}]_vars

\* indexes of the successful present-position reads of the executor call
PosReadsOk ==
  {n \in DOMAIN txlog : txlog[n].reg = "present_position" /\ txlog[n].ok}

WritesOn(port, reg) ==
  {n \in DOMAIN txlog : txlog[n].kind = "write" /\ txlog[n].port = port /\ txlog[n].reg = reg}

\* C9: a bus whose actuators are all at their goals (max_travel = 0) gets no
\* write transaction of the call, and while the call runs every bus read
\* with max_travel > 0 has got its velocity write and its goal write.
ThmC9 ==
  \A n \in PosReadsOk :
    LET port == txlog[n].port
        atGoal == \A d \in DOMAIN txlog[n].data : LoggedTravel(n, d) = 0
    IN /\ atGoal => WritesOn(port, "profile_velocity") \cup WritesOn(port, "goal_position") = {}
       /\ (~atGoal /\ pc = "exec") =>
            /\ WritesOn(port, "profile_velocity") # {}
            /\ WritesOn(port, "goal_position") # {}

\* a call in which one bus had nothing to move and another bus was written
WitC9 ==
  /\ pc = "exec"
  /\ \E n \in PosReadsOk :
       /\ \A d \in DOMAIN txlog[n].data : LoggedTravel(n, d) = 0
       /\ \E w \in DOMAIN txlog : txlog[w].kind = "write" /\ txlog[w].port # txlog[n].port

RECURSIVE PathSpeeds(_)
\* product of the speed fields (100 when absent) of the nested-script steps
\* that lead from the top-level script to activation j
PathSpeeds(j) ==
  IF j = 1 THEN 1
  ELSE LET caller == stack[j - 1]
           speed  == Script(caller.file).sequence[caller.i].speed
       IN PathSpeeds(j - 1) * (IF speed = << >> THEN 100 ELSE speed[1])

\* C10: the multiplier of every activation of process_sequence is the
\* product of speed / 100 over the nested-script steps on its path from the
\* top-level script, which runs at 1.
ThmC10 ==
  \A j \in DOMAIN stack :
    stack[j].mult.num * (100 ^ (j - 1)) = PathSpeeds(j) * stack[j].mult.den

\* a leaf executed at 0.25 inside speed 50 nested in speed 50
WitC10 ==
  /\ pc = "exec"
  /\ Len(stack) = 3
  /\ Script(stack[1].file).sequence[stack[1].i].speed = <<50>>
  /\ Script(stack[2].file).sequence[stack[2].i].speed = <<50>>
  /\ Top.mult.num * 4 = Top.mult.den


\* velocity of the leaf step in progress before scaling: its own velocity
\* field, else the base_velocity of its script, else 150
LeafVelocity ==
  LET own  == TopStep.velocity
      base == Script(Top.file).base_velocity
  IN IF own # << >> THEN own[1] ELSE IF base # << >> THEN base[1] ELSE 150

\* the exact multiplier of the activation on top of the stack, in lowest terms
PathNum == PathSpeeds(Len(stack)) \div GCD(PathSpeeds(Len(stack)), 100 ^ (Len(stack) - 1))
PathDen == (100 ^ (Len(stack) - 1)) \div GCD(PathSpeeds(Len(stack)), 100 ^ (Len(stack) - 1))

\* every nested-script step on the path has a speed that is a multiple of 100
WholeFactors ==
  \A j \in 1 .. (Len(stack) - 1) :
    LET speed == Script(stack[j].file).sequence[stack[j].i].speed
    IN speed = << >> \/ speed[1] % 100 = 0

InScriptLeaf == pc = "exec" /\ stack # << >>

\* C11 as stated: the base velocity passed to the executor is the leaf
\* velocity times the accumulated multiplier, rounded (halves up).
CexC11 ==
  InScriptLeaf =>
    final_velocity = (2 * LeafVelocity * PathNum + PathDen) \div (2 * PathDen)

\* C11 amended: the base velocity passed to the executor is
\* int(velocity * multiplier), the double product truncated, not rounded:
\* the exact product with its fraction dropped when it is not an integer,
\* and the exact product or one less when it is an integer the double
\* product can fall short of (100 at speed 29 gives 28); it is the exact
\* product whenever every speed on the path is a multiple of 100, so a
\* nested script entered with speed = 200 from a top-level script runs its
\* leaves at exactly double its own base velocity.
ThmC11 ==
  InScriptLeaf =>
    LET p == LeafVelocity * PathNum
        q == p \div PathDen
    IN IF p % PathDen # 0 THEN final_velocity = q
       ELSE IF WholeFactors THEN final_velocity = q
       ELSE final_velocity \in {q, q - 1}

\* a leaf of a script entered with speed = 200 from the top-level script,
\* run at double the base velocity of its script
WitC11 ==
  /\ InScriptLeaf
  /\ Len(stack) = 2
  /\ Script(stack[1].file).sequence[stack[1].i].speed = <<200>>
  /\ TopStep.velocity = << >>
  /\ final_velocity = 2 * LeafVelocity


\* indexes of the logged grouped reads of the motion-enable register
GateReads == {n \in DOMAIN txlog : txlog[n].reg = "torque_enable"}

\* a logged read succeeded and returned the value 1 for each of its actuators
AllEnabled(n) ==
  /\ txlog[n].ok
  /\ \A d \in DOMAIN txlog[n].data : txlog[n].data[d].avail /\ txlog[n].data[d].val = 1

\* an actuator of a logged read was not returned or is not enabled
NotEnabled(n, d) == ~txlog[n].data[d].avail \/ txlog[n].data[d].val # 1

ManifestIdsOn(p) == {Manifest[k].id : k \in {j \in DOMAIN Manifest : Manifest[j].com_port = p}}

\* C12: check_torque_status returns true exactly when the grouped read of
\* every bus succeeded and returned 1 for every manifest actuator of the
\* bus; one failed read, or one actuator unavailable or not 1, fails the
\* whole check, and a failing actuator's id is reported.
ThmC12 ==
  /\ pc = "dispatch" =>
       /\ gate = "passed"
       /\ \A p \in Ports : \E n \in GateReads :
            /\ txlog[n].port = p
            /\ AllEnabled(n)
            /\ DOMAIN txlog[n].data = ManifestIdsOn(p)
  /\ (\E n \in GateReads : ~AllEnabled(n)) => gate = "failed"
  /\ gate = "failed" =>
       LET last == Len(txlog) IN
         /\ last \in GateReads /\ ~AllEnabled(last)
         /\ txlog[last].ok =>
              \E d \in DOMAIN txlog[last].data :
                /\ NotEnabled(last, d)
                /\ \A o \in DOMAIN txlog[last].data : NotEnabled(last, o) => d <= o
                /\ queue[Len(queue) - 1] = << "torque_disabled", ToString(d) >>

\* a check that failed on actuator 2, enabled actuator 1 read before it,
\* and reported id 2
WitC12 ==
  /\ pc = "done" /\ gate = "failed"
  /\ txlog # << >>
  /\ txlog[Len(txlog)].ok
  /\ txlog[Len(txlog)].data[1] = [avail |-> TRUE, val |-> 1]
  /\ txlog[Len(txlog)].data[2] = [avail |-> TRUE, val |-> 0]
  /\ queue[Len(queue) - 1] = << "torque_disabled", "2" >>


\* the goal set being executed names an actuator that is not in the manifest
HasUnknownId == \E n \in DOMAIN servo_goals : servo_goals[n][1] \notin ManifestIds

\* buses of the manifest actuators of the goal set being executed
KnownPorts == {Servo(d).com_port : d \in KnownIds(servo_goals)}

KnownIdsOn(port) == {d \in KnownIds(servo_goals) : Servo(d).com_port = port}

\* the log of a finished call has, for a bus, the read of its known
\* actuators and, when that read succeeded away from the goals, the two
\* writes for the same actuators with the goal positions of the goal set
BusServed(port) ==
  \E n \in DOMAIN txlog :
    /\ txlog[n].port = port /\ txlog[n].reg = "present_position"
    /\ SeqRange(txlog[n].ids) = KnownIdsOn(port)
    /\ (txlog[n].ok /\ \E d \in DOMAIN txlog[n].data : LoggedTravel(n, d) > 0) =>
         /\ \E w \in WritesOn(port, "profile_velocity") :
              SeqRange(txlog[w].ids) = KnownIdsOn(port)
         /\ \E w \in WritesOn(port, "goal_position") :
              /\ SeqRange(txlog[w].ids) = KnownIdsOn(port)
              /\ \A d \in KnownIdsOn(port) :
                   txlog[w].data[d] =
                     ParamBytes(GoalPos(d), RegisterLen(d, "goal_position", address_map))

\* C13: execute_sync_move leaves an id that is not in the manifest out of
\* every transaction, raises nothing because of it, and reads and writes
\* the known actuators of the goal set as usual.
ThmC13 ==
  [][(pc = "exec" /\ HasUnknownId) =>
       /\ \A n \in DOMAIN txlog' : SeqRange(txlog'[n].ids) \subseteq ManifestIds
       /\ address_map = AddrFull => pc' \in {"exec", "wait"}
       /\ pc' = "wait" => \A port \in KnownPorts : BusServed(port)]_vars

\* the call for {1: 100, 99: 10} has written the goal of actuator 1 alone
WitC13 ==
  /\ pc = "exec" /\ HasUnknownId
  /\ portIdx > Len(MovePorts(servo_goals))
  /\ \E w \in WritesOn("A", "goal_position") : txlog[w].ids = << 1 >>


\* C14: on every bus execute_sync_move writes, the log of the call has one
\* velocity write and one goal-position write, the goal-position write
\* right after the velocity write and for the same actuators.
ThmC14 ==
  \A port \in Ports :
    LET vel  == WritesOn(port, "profile_velocity")
        goal == WritesOn(port, "goal_position")
    IN /\ Cardinality(vel) <= 1
       /\ Cardinality(goal) <= 1
       /\ \A v \in vel : v + 1 \in goal /\ txlog[v + 1].ids = txlog[v].ids
       /\ \A g \in goal : g - 1 \in vel

\* a call that has written both buses
WitC14 ==
  /\ pc = "exec"
  /\ WritesOn("A", "goal_position") # {}
  /\ WritesOn("B", "goal_position") # {}


\* the step of the activation on top of a stack
StepOf(stk) == Script(stk[Len(stk)].file).sequence[stk[Len(stk)].i]

\* C15: a nested script that cannot be loaded ends only its own step: the
\* enclosing script goes on with the delay of that step and its later
\* steps, and the run is closed as usual; a top-level script that cannot be
\* loaded goes straight to the teardown with no step taken.
ThmC15 ==
  [][/\ (pc = "seq_load" /\ ~ScriptLoads(Top.file) /\ Len(stack) > 1) =>
          /\ pc' = "seq_delay"
          /\ stack' = SubSeq(stack, 1, Len(stack) - 1)
          /\ StepOf(stack').position_file = << Top.file >>
     /\ (pc = "seq_load" /\ ~ScriptLoads(Top.file) /\ Len(stack) = 1) =>
          /\ pc' = "close"
          /\ \A n \in DOMAIN queue' : queue'[n][1] # "step"
     /\ (pc = "close" /\ filename = "fast.toml") =>
          /\ pc' = "done"
          /\ \A port \in Ports : ~portOpen'[port]
          /\ queue'[Len(queue')] = Msg("finished", filename)
          /\ \E a, b, c \in DOMAIN queue :
               /\ a < b /\ b < c
               /\ queue[a] = Msg("toml_error", "broken.toml")
               /\ queue[b] = Msg("step", "inner.toml")
               /\ queue[c] = Msg("step", "trim.toml")]_vars

\* fast.toml has finished: broken.toml failed to load, the leaf of the
\* next step was moved and awaited, and every bus is closed
WitC15 ==
  /\ pc = "done" /\ filename = "fast.toml"
  /\ NoPortOpen
  /\ \E a, b \in DOMAIN queue :
       /\ a < b
       /\ queue[a] = Msg("toml_error", "broken.toml")
       /\ queue[b] = Msg("movement_complete", "")


\* C16 as stated: an actuator whose present position was not returned by a
\* successful grouped read is left out of the velocity write and of the
\* goal-position write of its bus.
CexC16 ==
  \A n \in PosReadsOk : \A d \in DOMAIN txlog[n].data :
    ~txlog[n].data[d].avail =>
      \A w \in DOMAIN txlog :
        (txlog[w].kind = "write" /\ txlog[w].port = txlog[n].port) =>
          d \notin SeqRange(txlog[w].ids)


\* indexes of the logged position reads that failed
PosReadsFailed ==
  {n \in DOMAIN txlog : txlog[n].reg = "present_position" /\ ~txlog[n].ok}

\* C17: a bus whose position read failed gets no write of the call, and a
\* call with a failed read still returns with every bus of its known
\* actuators read and, away from the goals, written.
ThmC17 ==
  [][pc = "exec" =>
       /\ \A n \in PosReadsFailed :
            \A w \in DOMAIN txlog' : txlog'[w].port = txlog[n].port => txlog'[w].kind = "read"
       /\ (pc' = "wait" /\ PosReadsFailed # {}) => \A port \in KnownPorts : BusServed(port)]_vars

\* bus B, visited first, failed its read and bus A was written after it
WitC17 ==
  /\ pc = "exec"
  /\ txlog # << >>
  /\ txlog[1].port = "B" /\ ~txlog[1].ok
  /\ WritesOn("A", "goal_position") # {}
  /\ WritesOn("B", "goal_position") = {}


\* a step of the poller that read the moving flags of a bus
PollHasRead == pollRead' # pollRead /\ pollRead'.port # ""

\* C18: in wait_for_move_completion a failed read of a bus leaves the
\* pending set as it was, a successful read covers every pending actuator
\* of the bus, and an actuator leaves the pending set only by a successful
\* read of its bus that returned its flag with the value 0.
ThmC18 ==
  [][(pc \in WaitPcs /\ pc' \in WaitPcs) =>
       /\ \A d \in servos_to_check \ servos_to_check' :
            /\ PollHasRead /\ pollRead'.ok
            /\ d \in DOMAIN pollRead'.flags
            /\ pollRead'.flags[d] = Reading(TRUE, 0)
            /\ Servo(d).com_port = pollRead'.port
       /\ (PollHasRead /\ ~pollRead'.ok) => servos_to_check' = servos_to_check
       /\ (PollHasRead /\ pollRead'.ok) =>
            DOMAIN pollRead'.flags =
              {d \in servos_to_check \cap ManifestIds : Servo(d).com_port = pollRead'.port}]_vars

\* the read of bus B failed after the actuators of bus A had been read as
\* stopped: actuator 4 is still pending
WitC18 ==
  /\ pc = "wait"
  /\ pollRead.port = "B" /\ ~pollRead.ok
  /\ servos_to_check = {4}
  /\ Len(servo_goals) = 4


\* C19 as stated: while a known actuator of the goal set has not been read
\* as stopped, the run stays in wait_for_move_completion: it takes no
\* further step, emits no finished message and closes nothing.
CexC19 ==
  [][(pc \in WaitPcs /\ servos_to_check' \cap ManifestIds # {}) => pc' \in WaitPcs]_vars


\* C20 as stated: two runs started from the GUI never hold the serial
\* device of the same bus open at the same time, and never have a
\* transaction in flight on the same bus at the same time.
CexC20 ==
  \A r1, r2 \in Runs :
    r1 # r2 =>
      /\ threads[r1].open \cap threads[r2].open = {}
      /\ ~(threads[r1].tx # "" /\ threads[r1].tx = threads[r2].tx)


\* C21 as stated: a run of run_animation that has returned has put, as its
\* last message, the finished message or the aborted message.
CexC21 ==
  pc = "done" =>
    /\ queue # << >>
    /\ queue[Len(queue)][1] \in {"finished", "aborted"}


\* C22 as stated, for the scripts without cycles: once the gate has let
\* the run of such a script through, and given that polled actuators are
\* eventually read as stopped, the run returns with every bus closed.
CexC22 ==
  (pc = "dispatch" /\ filename \in AcyclicScripts) ~> (pc = "done" /\ NoPortOpen)


\* positions of the run inside process_sequence, execute_sync_move and
\* wait_for_move_completion, and at the dispatch that calls them
BodyPcs == {"dispatch", "seq_load", "seq_step", "seq_delay", "exec", "wait", "wait_sleep"}

\* C23: while process_sequence, execute_sync_move or
\* wait_for_move_completion runs, the connection map holds an open
\* connection for every bus of the manifest, so the bus at hand in the
\* executor's loop and in the poller's loop always has its connection.
ThmC23 ==
  pc \in BodyPcs =>
    /\ SeqRange(port_handlers) = Ports
    /\ \A port \in Ports : portOpen[port]
    /\ (pc = "exec" /\ portIdx <= Len(MovePorts(servo_goals))) =>
         MovePorts(servo_goals)[portIdx] \in SeqRange(port_handlers)
    /\ (pc = "wait" /\ portIdx <= Len(PollPorts(servo_goals))) =>
         PollPorts(servo_goals)[portIdx] \in SeqRange(port_handlers)

\* the poller has read bus A and is about to read bus B
WitC23 ==
  /\ pc = "wait"
  /\ pollRead.port = "A"
  /\ portIdx = 2
  /\ Len(PollPorts(servo_goals)) = 2
  /\ PollPorts(servo_goals)[portIdx] = "B"
  /\ 4 \in servos_to_check


\* the longest message stream of one thread: the announcement of the
\* torque check, its result, and the aborted or finished message
MaxSent == 3

\* ranks of the messages of thread r in a sequence of lines, in the order
\* of the sequence (the lines the GUI writes itself carry no label)
Ranks(lines, r) ==
  LET own == SelectSeq(lines, LAMBDA m : Len(m) = 4 /\ m[3] = r)
  IN [n \in DOMAIN own |-> own[n][4]]

\* the message of rank k of thread r is in a sequence of lines
Holds(lines, r, k) == \E n \in DOMAIN lines : Len(lines[n]) = 4 /\ lines[n][3] = r /\ lines[n][4] = k

\* C24: the messages a thread has put are, in the order it put them and
\* each once, the ones of the status box followed by the ones still in the
\* queue; and a message in the queue is eventually in the status box.
ThmC24 ==
  /\ [](\A r \in Runs :
          /\ threads[r].sent <= MaxSent
          /\ Ranks(status_text, r) \o Ranks(queue, r) = [n \in 1 .. threads[r].sent |-> n])
  /\ \A r \in Runs, k \in 1 .. MaxSent :
       Holds(queue, r, k) ~> (Holds(status_text, r, k) /\ ~Holds(queue, r, k))

\* messages of both threads are displayed interleaved while a later
\* message of the first thread is still in the queue
WitC24 ==
  /\ Ranks(status_text, "first") = << 1 >>
  /\ Ranks(status_text, "second") = << 1 >>
  /\ Ranks(queue, "first") # << >>
  /\ Len(queue) >= 2
  /\ queue[1][3] = "second"

====
